---- MODULE Spec2Model ----
(***************************************************************************)
(* Invoice retrieval and distribution layer of G7ServNfse:                 *)
(*   - certificate identity of the two portal clients                      *)
(*     (server/nfseNacional.ts, server/nfseRecife.ts) and the upload route *)
(*   - the cursor-paginated period query of the national client            *)
(*   - the batch archive route and the portal PDF route (server/routes.ts) *)
(* A nullable field holds Null (the empty tuple) or <<value>>.             *)
(***************************************************************************)
EXTENDS Integers, Sequences, FiniteSets, TLC

VARIABLES
    nacional,       \* NfseNacionalService: [certPem, keyPem, httpsAgent]
    recife,         \* NfseRecifeService: [certificado, httpsAgent]
    ultimaConfig,   \* the last POST /api/integracao/certificado and its outcome
    qpc,            \* consultarNfsesPorPeriodo: "ociosa", "aguardando", "concluida", "falhou"
    periodo,        \* its arguments dataInicio, dataFim
    notas,          \* its local notas
    ultNsu,         \* its local ultNsu
    temMais,        \* its local temMais
    pedidos,        \* the GET /DFe requests it has issued: cursor and agent of each
    restantes,      \* pages the portal still holds for this caller
    resultado,      \* Null, or <<the list the call returned>>
    erro,           \* "", or the error the call threw
    bpc,            \* POST /api/nfse/batch-download: "ocioso", "anexando", "registrando",
                    \*   "finalizando", "fim"
    lote,           \* its request body: nfseIds
    nfseList,       \* the rows getNfseByIds returned
    idx,            \* position of its for loop in nfseList
    fila,           \* archiver: entries appended and not yet written
    zipEntries,     \* archiver: entries written to the response, in order
    lidos,          \* appended entries whose read stream has delivered its data, in order
    finalizado,     \* archiver: the archive was finalized and the response ended
    res,            \* the response of the batch route: status, Content-Type, ended
    console,        \* console.error lines of the batch route: the skipped rows
    downloadLogs,   \* rows of download_logs
    pdf,            \* the last GET /api/portal/nfse/:chave/pdf and its outcome
    filtro,         \* consultarNfsesPorTomador: Null, or <<the cnpjTomador it filters by>>
    ultimaResposta, \* how the last GET /DFe of the call ended: "json", "ilegivel", "erro"
    chamada,        \* the last call of a single-request client operation and its outcome
    portal,         \* the last GET /api/portal/nfse and the client that served it
    calc            \* the last evaluation of a parsing or formatting function

qvars == <<qpc, periodo, notas, ultNsu, temMais, pedidos, restantes, resultado, erro,
          filtro, ultimaResposta>>

bvars == <<bpc, lote, nfseList, idx, fila, zipEntries, lidos, finalizado, res, console,
           downloadLogs, pdf>>

cqvars == <<nacional, recife, ultimaConfig, qvars>>

xvars == <<chamada, portal, calc>>

vars == <<nacional, recife, ultimaConfig, qpc, periodo, notas, ultNsu, temMais,
          pedidos, restantes, resultado, erro, bpc, lote, nfseList, idx, fila, zipEntries,
          lidos, finalizado, res, console, downloadLogs, pdf, filtro, ultimaResposta,
          chamada, portal, calc>>

Null == <<>>

Some(x) == <<x>>

\* the sequences over S of length at most n
RECURSIVE SeqsUpTo(_, _)
SeqsUpTo(S, n) ==
    IF n = 0 THEN {<<>>}
    ELSE LET shorter == SeqsUpTo(S, n - 1)
         IN  shorter \cup {Append(q, x) : q \in shorter, x \in S}

(***************************************************************************)
(* Certificate bundles (PKCS#12 containers) an administrator can upload.   *)
(* der: the bytes are a DER structure; senha: the secret that unlocks it;  *)
(* certBag / keyBag: the certificate and the shrouded key inside, or       *)
(* "ausente" (no bag of that type) or "ilegivel" (a bag whose cert / key   *)
(* forge left null).                                                       *)
(***************************************************************************)
Ausente == "ausente"

Ilegivel == "ilegivel"

Bundles ==
    { [nome |-> "b1", der |-> TRUE,  senha |-> "s1", certBag |-> "c1",    keyBag |-> "k1"],
      [nome |-> "b2", der |-> TRUE,  senha |-> "s2", certBag |-> "c2",    keyBag |-> "k2"],
      [nome |-> "b3", der |-> TRUE,  senha |-> "s1", certBag |-> "c3",    keyBag |-> Ausente],
      [nome |-> "b4", der |-> TRUE,  senha |-> "s1", certBag |-> Ausente, keyBag |-> "k4"],
      [nome |-> "b5", der |-> TRUE,  senha |-> "s1", certBag |-> "c5",    keyBag |-> Ilegivel],
      [nome |-> "b6", der |-> FALSE, senha |-> "s1", certBag |-> Ausente, keyBag |-> Ausente] }

Senhas == {"s1", "s2"}

\* forge.asn1.fromDer and forge.pkcs12.pkcs12FromAsn1 succeed (do not throw)
AbreBundle(pfx, senha) == pfx.der /\ pfx.senha = senha

\* the bag checks of configurarCertificado pass
TemCertEChave(pfx) ==
    /\ pfx.certBag # Ausente /\ pfx.keyBag # Ausente
    /\ pfx.certBag # Ilegivel /\ pfx.keyBag # Ilegivel

certificateToPem(cert) == [tipo |-> "CERTIFICATE", corpo |-> cert]

privateKeyToPem(key) == [tipo |-> "RSA PRIVATE KEY", corpo |-> key]

\* new https.Agent({cert, key, rejectUnauthorized: true})
NewAgent(certPem, keyPem) == [cert |-> certPem, key |-> keyPem, rejectUnauthorized |-> TRUE]

NacionalInit == [certPem |-> Null, keyPem |-> Null, httpsAgent |-> Null]

RecifeInit == [certificado |-> Null, httpsAgent |-> Null]

\* the catch block of the national client clears the identity before returning false
configurarCertificadoLimpa(self, pfxBuffer, senha) ==
    IF AbreBundle(pfxBuffer, senha) /\ TemCertEChave(pfxBuffer)
    THEN [self |-> [certPem |-> Some(certificateToPem(pfxBuffer.certBag)),
                    keyPem |-> Some(privateKeyToPem(pfxBuffer.keyBag)),
                    httpsAgent |-> Some(NewAgent(certificateToPem(pfxBuffer.certBag),
                                                 privateKeyToPem(pfxBuffer.keyBag)))],
          ret |-> TRUE]
    ELSE [self |-> NacionalInit, ret |-> FALSE]

\* the national client stores the certificate PEM before it has checked the key bag
configurarCertificadoParcial(self, pfxBuffer, senha) ==
    IF ~AbreBundle(pfxBuffer, senha) \/ pfxBuffer.certBag \in {Ausente, Ilegivel}
    THEN [self |-> self, ret |-> FALSE]
    ELSE IF pfxBuffer.keyBag \in {Ausente, Ilegivel}
    THEN [self |-> [self EXCEPT !.certPem = Some(certificateToPem(pfxBuffer.certBag))],
          ret |-> FALSE]
    ELSE [self |-> [certPem |-> Some(certificateToPem(pfxBuffer.certBag)),
                    keyPem |-> Some(privateKeyToPem(pfxBuffer.keyBag)),
                    httpsAgent |-> Some(NewAgent(certificateToPem(pfxBuffer.certBag),
                                                 privateKeyToPem(pfxBuffer.keyBag)))],
          ret |-> TRUE]

(***************************************************************************)
(* NfseNacionalService.configurarCertificado: the new fields of the client *)
(* and the value returned.  Every throw inside the try block is caught and *)
(* turned into false; the fields are assigned only after all checks.       *)
(***************************************************************************)
configurarCertificado(self, pfxBuffer, senha) ==
    IF ~pfxBuffer.der
    THEN [self |-> self, ret |-> FALSE]                      \* fromDer throws
    ELSE IF pfxBuffer.senha # senha
    THEN [self |-> self, ret |-> FALSE]                      \* pkcs12FromAsn1 throws
    ELSE IF pfxBuffer.certBag = Ausente \/ pfxBuffer.keyBag = Ausente
    THEN [self |-> self, ret |-> FALSE]                      \* bags not found
    ELSE IF pfxBuffer.certBag = Ilegivel \/ pfxBuffer.keyBag = Ilegivel
    THEN [self |-> self, ret |-> FALSE]                      \* cert or key invalid
    ELSE LET certPem == certificateToPem(pfxBuffer.certBag)
             keyPem == privateKeyToPem(pfxBuffer.keyBag)
         IN  [self |-> [certPem |-> Some(certPem),
                        keyPem |-> Some(keyPem),
                        httpsAgent |-> Some(NewAgent(certPem, keyPem))],
              ret |-> TRUE]

\* the catch block of the municipal client clears the identity before returning false
configurarCertificadoBufferLimpa(self, pfxBuffer, senha) ==
    IF AbreBundle(pfxBuffer, senha) /\ TemCertEChave(pfxBuffer)
    THEN LET certPem == certificateToPem(pfxBuffer.certBag)
             keyPem == privateKeyToPem(pfxBuffer.keyBag)
         IN  [self |-> [httpsAgent |-> Some(NewAgent(certPem, keyPem)),
                        certificado |-> Some([pfxBuffer |-> pfxBuffer, senha |-> senha])],
              ret |-> TRUE]
    ELSE [self |-> RecifeInit, ret |-> FALSE]

(***************************************************************************)
(* NfseRecifeService.configurarCertificadoBuffer.                          *)
(***************************************************************************)
configurarCertificadoBuffer(self, pfxBuffer, senha) ==
    IF ~pfxBuffer.der
    THEN [self |-> self, ret |-> FALSE]
    ELSE IF pfxBuffer.senha # senha
    THEN [self |-> self, ret |-> FALSE]
    ELSE IF pfxBuffer.certBag = Ausente \/ pfxBuffer.keyBag = Ausente
    THEN [self |-> self, ret |-> FALSE]
    ELSE IF pfxBuffer.certBag = Ilegivel \/ pfxBuffer.keyBag = Ilegivel
    THEN [self |-> self, ret |-> FALSE]
    ELSE LET certPem == certificateToPem(pfxBuffer.certBag)
             keyPem == privateKeyToPem(pfxBuffer.keyBag)
         IN  [self |-> [httpsAgent |-> Some(NewAgent(certPem, keyPem)),
                        certificado |-> Some([pfxBuffer |-> pfxBuffer, senha |-> senha])],
              ret |-> TRUE]

\* isCertificadoConfigurado of either client
isCertificadoConfigurado(self) == self.httpsAgent # Null

(***************************************************************************)
(* POST /api/integracao/certificado.  A request carries the uploaded file  *)
(* (or none), the secret (possibly empty) and the system tag.              *)
(***************************************************************************)
SemArquivo == [nome |-> "nenhum", der |-> FALSE, senha |-> "", certBag |-> Ausente, keyBag |-> Ausente]

Sistemas == {"nacional", "municipal", "estadual", "undefined"}

CertRequests ==
    [file : Bundles \cup {SemArquivo}, senha : Senhas \cup {""}, sistema : Sistemas]

\* every upload is sent to the national client
AlvoSempreNacional(sistema) == "nacional"

\* the dispatch of the upload route on the system tag
AlvoDoCertificado(sistema) == IF sistema = "municipal" THEN "municipal" ELSE "nacional"

SemConfig ==
    [sistema |-> "undefined", file |-> SemArquivo, senha |-> "",
     alvo |-> "nenhum", sucesso |-> FALSE, status |-> 0]

PostCertificado(req) ==
    IF req.file = SemArquivo \/ req.senha = ""
    THEN /\ ultimaConfig' = [sistema |-> req.sistema, file |-> req.file, senha |-> req.senha,
                             alvo |-> "nenhum", sucesso |-> FALSE, status |-> 400]
         /\ UNCHANGED <<nacional, recife>>
    ELSE LET alvo == AlvoDoCertificado(req.sistema)
             r == IF alvo = "municipal"
                  THEN configurarCertificadoBuffer(recife, req.file, req.senha)
                  ELSE configurarCertificado(nacional, req.file, req.senha)
         IN  /\ recife' = IF alvo = "municipal" THEN r.self ELSE recife
             /\ nacional' = IF alvo = "municipal" THEN nacional ELSE r.self
             /\ ultimaConfig' = [sistema |-> req.sistema, file |-> req.file,
                                 senha |-> req.senha, alvo |-> alvo, sucesso |-> r.ret,
                                 status |-> IF r.ret THEN 200 ELSE 400]

(***************************************************************************)
(* Texts and numbers.  A text is a tuple of one-character strings, "" the  *)
(* empty tuple.  A number is NaN or a decimal, held in thousandths.        *)
(***************************************************************************)
Digitos == {"0", "1", "2", "3", "4", "5", "6", "7", "8", "9"}

ValorDoDigito(c) ==
    CASE c = "0" -> 0 [] c = "1" -> 1 [] c = "2" -> 2 [] c = "3" -> 3 [] c = "4" -> 4
      [] c = "5" -> 5 [] c = "6" -> 6 [] c = "7" -> 7 [] c = "8" -> 8 [] OTHER -> 9

\* a || b on strings: the empty string is falsy
Ou(a, b) == IF a = <<>> THEN b ELSE a

\* text.replace(/\D/g, "")
replaceNaoDigitos(texto) == SelectSeq(texto, LAMBDA c : c \in Digitos)

NaN == [nan |-> TRUE, x1000 |-> 0]

Numero(milesimos) == [nan |-> FALSE, x1000 |-> milesimos]

\* parseFloat: leading blanks, an optional sign, digits, an optional point and
\* digits; whatever follows is ignored; no digit at all gives NaN.  (Exponents and
\* "Infinity" are not among the texts of this model; decimals beyond the third are cut.)
parseFloat(texto) ==
    LET n == Len(texto)
        pula[i \in 1..(n + 1)] == IF i <= n /\ texto[i] = " " THEN pula[i + 1] ELSE i
        fimDig[i \in 1..(n + 1)] == IF i <= n /\ texto[i] \in Digitos THEN fimDig[i + 1] ELSE i
        ini == pula[1]
        temSinal == ini <= n /\ texto[ini] \in {"-", "+"}
        sinal == IF ini <= n /\ texto[ini] = "-" THEN -1 ELSE 1
        p == IF temSinal THEN ini + 1 ELSE ini
        q == fimDig[p]
        temPonto == q <= n /\ texto[q] = "."
        r == IF temPonto THEN fimDig[q + 1] ELSE q
        nInt == q - p
        nFrac == IF temPonto THEN r - q - 1 ELSE 0
        inteiro[i \in (p - 1)..(q - 1)] ==
            IF i < p THEN 0 ELSE inteiro[i - 1] * 10 + ValorDoDigito(texto[i])
        casa(k) == IF k <= nFrac THEN ValorDoDigito(texto[q + k]) ELSE 0
    IN  IF nInt + nFrac = 0 THEN NaN
        ELSE Numero(sinal * (inteiro[q - 1] * 1000 + casa(1) * 100 + casa(2) * 10 + casa(3)))

\* the texts a value field can hold
ValTextos ==
    { <<>>, <<"0">>, <<"7">>, <<"1", ".", "5">>, <<".", "5">>, <<" ", "1", "2">>,
      <<"1", "2", "a">>, <<"1", ".", "2", "3", "4", ",", "5">>,
      <<"-", "5">>, <<"a", "b", "c">>, <<"R", "$", "7">>, <<"-">> }

\* parseFloat of each of these texts, evaluated once
parseFloatDe == [t \in ValTextos |-> parseFloat(t)]

CnpjFormatado ==
    <<"1", "2", ".", "3", "4", "5", ".", "6", "7", "8", "/", "0", "0", "0", "1", "-", "9", "9">>

CnpjDigitos == <<"1", "2", "3", "4", "5", "6", "7", "8", "0", "0", "0", "1", "9", "9">>

OutroCnpj == <<"9", "8", "7", "6", "5", "4", "3", "2", "0", "0", "0", "1", "0", "0">>

(***************************************************************************)
(* Bytes.  A buffer is a tuple of bytes (0..255); a base64 text is a tuple *)
(* of sextets (0..63) with 64 for the padding character; a decoded text is *)
(* a tuple of code points.                                                 *)
(***************************************************************************)
\* text to bytes, as the portal encodes a document: UTF-8 of up to three bytes
RECURSIVE utf8Write(_)
utf8Write(texto) ==
    IF texto = <<>> THEN <<>>
    ELSE LET cp == Head(texto)
         IN  (IF cp < 128 THEN <<cp>>
              ELSE IF cp < 2048 THEN <<192 + (cp \div 64), 128 + (cp % 64)>>
              ELSE <<224 + (cp \div 4096), 128 + ((cp \div 64) % 64), 128 + (cp % 64)>>)
                 \o utf8Write(Tail(texto))

RECURSIVE Soma(_)
Soma(bytes) == IF bytes = <<>> THEN 0 ELSE Head(bytes) + Soma(Tail(bytes))

\* a gzip member: magic, method, the data (kept as stored blocks), check value, size
gzipSync(bytes) == <<31, 139, 8>> \o bytes \o <<Soma(bytes) % 256, Len(bytes) % 256>>

\* gunzipSync: <<the data>>, or Null when it throws (bad header, check value or size)
gunzipSync(buffer) ==
    IF Len(buffer) < 5 THEN Null
    ELSE LET dados == SubSeq(buffer, 4, Len(buffer) - 2)
         IN  IF /\ SubSeq(buffer, 1, 3) = <<31, 139, 8>>
                /\ buffer[Len(buffer) - 1] = Soma(dados) % 256
                /\ buffer[Len(buffer)] = Len(dados) % 256
             THEN Some(dados)
             ELSE Null

\* buffer.toString("base64")
RECURSIVE toStringBase64(_)
toStringBase64(bytes) ==
    IF bytes = <<>> THEN <<>>
    ELSE IF Len(bytes) = 1
    THEN <<bytes[1] \div 4, (bytes[1] % 4) * 16, 64, 64>>
    ELSE IF Len(bytes) = 2
    THEN <<bytes[1] \div 4, (bytes[1] % 4) * 16 + (bytes[2] \div 16), (bytes[2] % 16) * 4, 64>>
    ELSE <<bytes[1] \div 4, (bytes[1] % 4) * 16 + (bytes[2] \div 16),
           (bytes[2] % 16) * 4 + (bytes[3] \div 64), bytes[3] % 64>>
             \o toStringBase64(SubSeq(bytes, 4, Len(bytes)))

\* Buffer.from(text, "base64"): decoding stops at the padding; four sextets give
\* three bytes, a last group of three gives two, of two gives one, of one none
RECURSIVE fromBase64(_)
fromBase64(b64) ==
    LET fim == IF \E i \in 1..Len(b64) : b64[i] = 64
               THEN (CHOOSE i \in 1..Len(b64) :
                         b64[i] = 64 /\ \A j \in 1..(i - 1) : b64[j] # 64) - 1
               ELSE Len(b64)
        d == SubSeq(b64, 1, fim)
    IN  IF Len(d) < 2 THEN <<>>
        ELSE IF Len(d) = 2 THEN <<d[1] * 4 + (d[2] \div 16)>>
        ELSE IF Len(d) = 3
        THEN <<d[1] * 4 + (d[2] \div 16), (d[2] % 16) * 16 + (d[3] \div 4)>>
        ELSE <<d[1] * 4 + (d[2] \div 16), (d[2] % 16) * 16 + (d[3] \div 4),
               (d[3] % 4) * 64 + d[4]>>
                 \o fromBase64(SubSeq(d, 5, Len(d)))

\* every byte is taken for one character, as toString("latin1") does
RECURSIVE toStringLatin1(_)
toStringLatin1(bytes) ==
    IF bytes = <<>> THEN <<>> ELSE <<Head(bytes)>> \o toStringLatin1(Tail(bytes))

\* buffer.toString("utf-8"): a byte that starts no well-formed sequence becomes U+FFFD
RECURSIVE toStringUtf8(_)
toStringUtf8(bytes) ==
    IF bytes = <<>> THEN <<>>
    ELSE LET b == bytes[1]
             cont(i) == i <= Len(bytes) /\ bytes[i] >= 128 /\ bytes[i] < 192
         IN  IF b < 128 THEN <<b>> \o toStringUtf8(Tail(bytes))
             ELSE IF b >= 194 /\ b < 224 /\ cont(2)
             THEN <<(b - 192) * 64 + (bytes[2] - 128)>>
                      \o toStringUtf8(SubSeq(bytes, 3, Len(bytes)))
             ELSE IF b >= 224 /\ b < 240 /\ cont(2) /\ cont(3)
                     /\ (b - 224) * 4096 + (bytes[2] - 128) * 64 >= 2048
             THEN <<(b - 224) * 4096 + (bytes[2] - 128) * 64 + (bytes[3] - 128)>>
                      \o toStringUtf8(SubSeq(bytes, 4, Len(bytes)))
             ELSE <<65533>> \o toStringUtf8(Tail(bytes))

(***************************************************************************)
(* National portal: documents, pages and responses.                        *)
(* An access key is its first 15 characters and the rest.  A timestamp is  *)
(* a day and an hour of that day; a calendar date is hour 0 of its day.    *)
(***************************************************************************)
PageSize == 50

Chave(pre, suf) == [pre |-> pre, resto |-> suf]

ChaveVazia == Chave("", "")

\* chaveAcesso.substring(0, 15)
substring15(chave) == chave.pre

Instante(dia, hora) == [dia |-> dia, hora |-> hora]

\* an XML text, by the tags a scan finds in it: each tag absent (Null) or
\* <<its text>>.  toma is the CNPJ of the customer (the toma group of the document).
XmlDoc(dhEmi, vLiq, ValorServicos, toma) ==
    [dhEmi |-> dhEmi, vLiq |-> vLiq, ValorServicos |-> ValorServicos, toma |-> toma]

\* the documents a page of the portal can hold: chNFSe (or none) and the
\* gzip+base64 payload, which decodes to an XML text or not at all
Item(chNFSe, gzip, dhEmi, toma) ==
    [chNFSe |-> chNFSe,
     docZipB64 |-> [gzip |-> gzip, xml |-> XmlDoc(dhEmi, Some(<<"7">>), Null, toma)]]

ItemA1 == Item(Some(Chave("A", "1")), TRUE, Some(Instante(2, 10)), Null)

ItemA2 == Item(Some(Chave("A", "2")), TRUE, Some(Instante(2, 0)), Some(CnpjDigitos))

ItemB1 == Item(Some(Chave("B", "1")), TRUE, Some(Instante(5, 0)), Some(OutroCnpj))

ItemSemChave == Item(Null, TRUE, Null, Null)

ItemCorrompido == Item(Some(Chave("C", "1")), FALSE, Null, Null)

Itens == {ItemA1, ItemA2, ItemB1, ItemSemChave, ItemCorrompido}

Recheios == {ItemA1}

MkPage(n, recheio, ultimo) == [i \in 1..n |-> IF i = n THEN ultimo ELSE recheio]

PageLens == {1, PageSize - 1, PageSize}

Paginas ==
    {<<>>} \cup {MkPage(n, f, l) : n \in PageLens, f \in Recheios, l \in Itens}

\* what one GET can end in: a 2xx JSON body with a docZip list, a 2xx body that
\* is not JSON, or a connection error / non-2xx status
Respostas ==
    {[tipo |-> "json", docZip |-> p] : p \in Paginas}
        \cup {[tipo |-> "ilegivel", docZip |-> <<>>], [tipo |-> "erro", docZip |-> <<>>]}

RespostaVazia == [tipo |-> "json", docZip |-> <<>>]

Periodos == {[dataInicio |-> Instante(1, 0), dataFim |-> Instante(2, 0)],
             [dataInicio |-> Instante(1, 0), dataFim |-> Instante(3, 0)]}

\* new Date(text).getTime()
getTime(instante) == instante.dia * 24 + instante.hora

\* extractTag: the text of the tag, "" when the scan does not find it
extractTag(xml, tagName) == IF xml[tagName] = Null THEN <<>> ELSE xml[tagName][1]

\* the value is parsed without the "0" that stands in for an absent field
parseNfseXmlSemPadrao(xml, chaveAcesso) ==
    [chaveAcesso |-> chaveAcesso,
     dataEmissao |-> xml.dhEmi,
     valor |-> parseFloatDe[Ou(extractTag(xml, "vLiq"), extractTag(xml, "ValorServicos"))],
     cnpjTomador |-> <<>>,
     xml |-> xml]

\* parseNfseXml: tolerant extraction; an absent tag gives the empty value.  The
\* customer fields are not extracted: cnpjTomador is "" for every document.
parseNfseXml(xml, chaveAcesso) ==
    [chaveAcesso |-> chaveAcesso,
     dataEmissao |-> xml.dhEmi,
     valor |-> parseFloatDe[Ou(Ou(extractTag(xml, "vLiq"), extractTag(xml, "ValorServicos")),
                              <<"0">>)],
     cnpjTomador |-> <<>>,
     xml |-> xml]

\* the body of the for loop of parseDistribuicaoResponse on a document whose payload
\* is given byte by byte: Null when gunzipSync throws (logged, the document
\* skipped), else the two fields of the record that are not scanned from the text
decodificarDoc(doc) ==
    LET xmlBuffer == gunzipSync(fromBase64(doc.docZipB64))
    IN  IF xmlBuffer = Null THEN Null
        ELSE Some([chaveAcesso |-> IF doc.chNFSe = Null THEN ChaveVazia ELSE doc.chNFSe[1],
                   xml |-> toStringUtf8(xmlBuffer[1])])

RECURSIVE parseDocs(_)
parseDocs(docZip) ==
    IF docZip = <<>> THEN <<>>
    ELSE LET doc == Head(docZip)
             chave == IF doc.chNFSe = Null THEN ChaveVazia ELSE doc.chNFSe[1]
         IN  IF doc.docZipB64.gzip
             THEN <<parseNfseXml(doc.docZipB64.xml, chave)>> \o parseDocs(Tail(docZip))
             ELSE parseDocs(Tail(docZip))      \* gunzipSync throws: logged, skipped

\* makeRequest followed by parseDistribuicaoResponse, for a response that is no error:
\* a body that is not JSON becomes {} and so an empty list
parseDistribuicaoResponse(r) ==
    IF r.tipo = "ilegivel" THEN <<>> ELSE parseDocs(r.docZip)

\* the date filter of consultarNfsesPorPeriodo; an unparseable date compares false
NoPeriodo(nota, per) ==
    /\ nota.dataEmissao # Null
    /\ getTime(nota.dataEmissao[1]) >= getTime(per.dataInicio)
    /\ getTime(nota.dataEmissao[1]) <= getTime(per.dataFim)

\* the cursor sent on the wire: ultNSU=${params.ultNsu || "0"}
ultNSUParam(cursor) == IF cursor = "" THEN "0" ELSE cursor

\* an empty page restarts the loop instead of leaving it
AposPaginaContinue(acumuladas, per, response) ==
    IF Len(response) = 0
    THEN [notas |-> acumuladas, ultNsu |-> ultNsu, temMais |-> TRUE]
    ELSE [notas |-> acumuladas \o SelectSeq(response, LAMBDA n : NoPeriodo(n, per)),
          ultNsu |-> substring15(response[Len(response)].chaveAcesso),
          temMais |-> ~(Len(response) < PageSize)]

\* one iteration of the while loop after its page has arrived: the locals it leaves
AposPagina(acumuladas, per, response) ==
    IF Len(response) = 0
    THEN [notas |-> acumuladas, ultNsu |-> ultNsu, temMais |-> FALSE]
    ELSE [notas |-> acumuladas \o SelectSeq(response, LAMBDA n : NoPeriodo(n, per)),
          ultNsu |-> substring15(response[Len(response)].chaveAcesso),
          temMais |-> ~(Len(response) < PageSize)]

MaxPages == 2

\* no call issues more requests than the portal has pages, plus the one that finds it empty
MaxPedidos == MaxPages + 2

\* distribuicaoDFe up to its await: the not-configured check, then the request
\* leaves with the agent the client holds at that moment
distribuicaoDFe(cursor) ==
    IF nacional.httpsAgent = Null
    THEN /\ qpc' = "falhou"
         /\ erro' = "Certificado digital nao configurado"
         /\ UNCHANGED pedidos
    ELSE /\ Len(pedidos) < MaxPedidos
         /\ qpc' = "aguardando"
         /\ pedidos' = Append(pedidos, [ultNSU |-> ultNSUParam(cursor),
                                        agent |-> nacional.httpsAgent[1]])
         /\ UNCHANGED erro

\* consultarNfsesPorPeriodo is called: locals initialised, first request issued
IniciarConsulta ==
    /\ qpc = "ociosa"
    /\ \E per \in Periodos : periodo' = per
    /\ notas' = <<>>
    /\ ultNsu' = "0"
    /\ temMais' = TRUE
    /\ ultimaResposta' = "nenhuma"
    /\ distribuicaoDFe("0")
    /\ UNCHANGED <<restantes, resultado, nacional, recife, ultimaConfig, bvars>>

\* the filter of consultarNfsesPorTomador on what consultarNfsesPorPeriodo returned;
\* a call of consultarNfsesPorPeriodo itself returns the list as it is
filtrarPorTomador(todasNotas) ==
    IF filtro = Null THEN todasNotas
    ELSE LET mesmoTomador(nota) ==
                 replaceNaoDigitos(nota.cnpjTomador) = replaceNaoDigitos(filtro[1])
         IN  SelectSeq(todasNotas, mesmoTomador)

\* the responses the portal can give to the request in flight
RespostasPossiveis == IF restantes = 0 THEN {RespostaVazia} ELSE Respostas

\* the request in flight ends as r and the call runs on to its next await or its end
ReceberResposta(r) ==
    /\ qpc = "aguardando"
    /\ restantes' = IF restantes = 0 THEN 0 ELSE restantes - 1
    /\ ultimaResposta' = r.tipo
    /\ IF r.tipo = "erro"
       THEN /\ qpc' = "falhou"
            /\ erro' = "HTTP"
            /\ UNCHANGED <<notas, ultNsu, temMais, pedidos, resultado>>
       ELSE LET st == AposPagina(notas, periodo, parseDistribuicaoResponse(r))
            IN  /\ notas' = st.notas
                /\ ultNsu' = st.ultNsu
                /\ temMais' = st.temMais
                /\ IF st.temMais
                   THEN distribuicaoDFe(st.ultNsu) /\ UNCHANGED resultado
                   ELSE /\ qpc' = "concluida"
                        /\ resultado' = Some(filtrarPorTomador(st.notas))
                        /\ UNCHANGED <<pedidos, erro>>
    /\ UNCHANGED <<periodo, filtro, nacional, recife, ultimaConfig, bvars, chamada, calc>>

\* a request that ended in a transport error is sent again
RespostaDoPortalComRetentativa ==
    \E r \in RespostasPossiveis :
        IF r.tipo = "erro"
        THEN /\ qpc = "aguardando"
             /\ Len(pedidos) < MaxPedidos
             /\ pedidos' = Append(pedidos, pedidos[Len(pedidos)])
             /\ ultimaResposta' = r.tipo
             /\ UNCHANGED <<qpc, periodo, notas, ultNsu, temMais, restantes, resultado, erro,
                            filtro, nacional, recife, ultimaConfig, bvars, xvars>>
        ELSE ReceberResposta(r) /\ UNCHANGED portal

RespostaDoPortal == \E r \in RespostasPossiveis : ReceberResposta(r) /\ UNCHANGED portal

(***************************************************************************)
(* The single-request operations of the national client.  A call is        *)
(* recorded whole: the response it was given (Null when it asked for       *)
(* none), the error it threw ("" when it returned), the requests it        *)
(* issued, what it returned and its console.warn lines.                    *)
(***************************************************************************)
Chamada(cliente, op, resposta, falha, requisicoes, retorno, warns) ==
    [cliente |-> cliente, op |-> op, resposta |-> resposta, erro |-> falha,
     requisicoes |-> requisicoes, retorno |-> retorno, warns |-> warns]

\* the ends of makeRequest for GET /nfse/{chave}: rejected (transport error or a
\* status outside 2xx), {} for a body that is not JSON, or the parsed object
RespostasNfse ==
    {[tipo |-> "erro", nfseXmlGZipB64 |-> Null],
     [tipo |-> "ilegivel", nfseXmlGZipB64 |-> Null],
     [tipo |-> "json", nfseXmlGZipB64 |-> Null],
     [tipo |-> "json", nfseXmlGZipB64 |-> Some(ItemA2.docZipB64)],
     [tipo |-> "json", nfseXmlGZipB64 |-> Some(ItemCorrompido.docZipB64)]}

consultarNfsePorChave(chaveAcesso, r) ==
    IF nacional.httpsAgent = Null
    THEN Chamada("nacional", "consultarNfsePorChave", Null,
                 "Certificado digital nao configurado", 0, Null, <<>>)
    ELSE IF r.tipo = "erro"
    THEN Chamada("nacional", "consultarNfsePorChave", Some(r), "HTTP", 1, Null, <<>>)
    ELSE IF r.nfseXmlGZipB64 = Null
    THEN Chamada("nacional", "consultarNfsePorChave", Some(r), "", 1,
                 Some([nulo |-> TRUE]), <<>>)
    ELSE IF ~r.nfseXmlGZipB64[1].gzip
    THEN Chamada("nacional", "consultarNfsePorChave", Some(r), "gunzip", 1, Null, <<>>)
    ELSE Chamada("nacional", "consultarNfsePorChave", Some(r), "", 1,
                 Some([xml |-> r.nfseXmlGZipB64[1].xml,
                       nfse |-> parseNfseXml(r.nfseXmlGZipB64[1].xml, chaveAcesso)]),
                 <<>>)

\* the ends of makeRequest for GET /danfse/{chave}: rejected, or the body's bytes
RespostasDanfse ==
    {[tipo |-> "erro", body |-> <<>>],
     [tipo |-> "2xx", body |-> <<>>],
     [tipo |-> "2xx", body |-> <<37, 80, 68, 70, 45>>]}

\* downloadDanfse without its check of the agent
downloadDanfseSemVerificacao(chaveAcesso, r) ==
    IF r.tipo = "erro"
    THEN Chamada("nacional", "downloadDanfse", Some(r), "HTTP", 1, Null, <<>>)
    ELSE LET pdfB64 == toStringBase64(r.body)
         IN  IF pdfB64 # <<>>
             THEN Chamada("nacional", "downloadDanfse", Some(r), "", 1,
                          Some([pdf |-> fromBase64(pdfB64)]), <<>>)
             ELSE Chamada("nacional", "downloadDanfse", Some(r), "PDF nao disponivel", 1,
                          Null, <<>>)

downloadDanfse(chaveAcesso, r) ==
    IF nacional.httpsAgent = Null
    THEN Chamada("nacional", "downloadDanfse", Null,
                 "Certificado digital nao configurado", 0, Null, <<>>)
    ELSE IF r.tipo = "erro"
    THEN Chamada("nacional", "downloadDanfse", Some(r), "HTTP", 1, Null, <<>>)
    ELSE LET pdfB64 == toStringBase64(r.body)
         IN  IF pdfB64 # <<>>
             THEN Chamada("nacional", "downloadDanfse", Some(r), "", 1,
                          Some([pdf |-> fromBase64(pdfB64)]), <<>>)
             ELSE Chamada("nacional", "downloadDanfse", Some(r), "PDF nao disponivel", 1,
                          Null, <<>>)

(***************************************************************************)
(* Municipal portal: the result object of ConsultarNfseAsync.  A node that *)
(* may be one object or an array of them says which it is (array) and      *)
(* holds its elements (itens); an element is Null or <<an object>>.        *)
(***************************************************************************)
Unico(o) == [array |-> FALSE, itens |-> <<o>>]

Lista(os) == [array |-> TRUE, itens |-> os]

MensagemE10 == [Codigo |-> "E10", Mensagem |-> "Inscricao municipal invalida"]

MensagemE4 == [Codigo |-> "E4", Mensagem |-> "CNPJ do prestador invalido"]

\* Servico, with the optional Valores and ValorServicos under it
Servicos ==
    {Null, Some([Valores |-> Null]), Some([Valores |-> Some([ValorServicos |-> Null])])}
        \cup {Some([Valores |-> Some([ValorServicos |-> Some(t)])]) : t \in ValTextos}

\* an element of CompNfse: null, without Nfse.InfNfse, or with it
CompNfses ==
    {Null, Some([InfNfse |-> Null])}
        \cup {Some([InfNfse |-> Some([Numero |-> <<"7">>, Servico |-> s,
                                       Cnpj |-> Some(CnpjDigitos)])]) : s \in Servicos}

MaxComp == 2

MaxMensagens == 2

Resposta(mensagens, notasFiscais) ==
    Some([ConsultarNfseResposta |->
             Some([ListaMensagemRetorno |-> mensagens, ListaNfse |-> notasFiscais])])

\* responses that carry a return message list (MensagemRetorno undefined, one
\* object, or an array), alone or beside an invoice list
RespostasComMensagens ==
    LET ms == {Null, Some(Unico(Some(MensagemE10)))}
                  \cup {Some(Lista(l)) : l \in SeqsUpTo({Some(MensagemE10), Some(MensagemE4)},
                                                       MaxMensagens)}
    IN  {Resposta(Some([MensagemRetorno |-> m]), Null) : m \in ms}
            \cup {Resposta(Some([MensagemRetorno |-> Some(Unico(Some(MensagemE4)))]),
                            Some([CompNfse |-> Some(Unico(c))])) : c \in CompNfses \ {Null}}

RespostasComNotas ==
    {Resposta(Null, Null), Resposta(Null, Some([CompNfse |-> Null]))}
        \cup {Resposta(Null, Some([CompNfse |-> Some(Unico(c))])) : c \in CompNfses \ {Null}}
        \cup {Resposta(Null, Some([CompNfse |-> Some(Lista(l))])) : l \in SeqsUpTo(CompNfses, MaxComp)}

ResultadosSoap ==
    {Null, Some([ConsultarNfseResposta |-> Null])} \cup RespostasComMensagens
        \cup RespostasComNotas

\* nfse.Servico?.Valores?.ValorServicos || "0"
ValorServicosDe(nfse) ==
    IF nfse.Servico = Null THEN <<"0">>
    ELSE IF nfse.Servico[1].Valores = Null THEN <<"0">>
    ELSE IF nfse.Servico[1].Valores[1].ValorServicos = Null THEN <<"0">>
    ELSE Ou(nfse.Servico[1].Valores[1].ValorServicos[1], <<"0">>)

\* the for loop over listaNotas: a null element throws at compNfse.Nfse, which the
\* catch of parseResultadoConsulta logs, and the records pushed so far are returned
RECURSIVE mapearCompNfse(_)
mapearCompNfse(listaNotas) ==
    IF listaNotas = <<>> THEN [notas |-> <<>>, erros |-> 0]
    ELSE LET compNfse == Head(listaNotas)
         IN  IF compNfse = Null THEN [notas |-> <<>>, erros |-> 1]
             ELSE LET resto == mapearCompNfse(Tail(listaNotas))
                      nfse == compNfse[1].InfNfse
                  IN  IF nfse = Null THEN resto
                      ELSE [notas |-> <<[numero |-> nfse[1].Numero,
                                         valor |-> parseFloatDe[ValorServicosDe(nfse[1])],
                                         cnpjTomador |-> IF nfse[1].Cnpj = Null THEN <<>>
                                                         ELSE nfse[1].Cnpj[1]]>>
                                        \o resto.notas,
                            erros |-> resto.erros]

\* every message of a return message list after the first is dropped unlogged
parseResultadoConsultaUmAviso(result) ==
    IF result = Null \/ result[1].ConsultarNfseResposta = Null
    THEN [notas |-> <<>>, warns |-> <<>>, erros |-> 0]
    ELSE LET resposta == result[1].ConsultarNfseResposta[1]
         IN  IF resposta.ListaMensagemRetorno # Null
             THEN LET mensagens == resposta.ListaMensagemRetorno[1].MensagemRetorno
                  IN  [notas |-> <<>>,
                       warns |-> IF mensagens = Null \/ mensagens[1].itens = <<>> THEN <<>>
                                 ELSE <<mensagens[1].itens[1][1]>>,
                       erros |-> 0]
             ELSE IF resposta.ListaNfse # Null /\ resposta.ListaNfse[1].CompNfse # Null
             THEN LET r == mapearCompNfse(resposta.ListaNfse[1].CompNfse[1].itens)
                  IN  [notas |-> r.notas, warns |-> <<>>, erros |-> r.erros]
             ELSE [notas |-> <<>>, warns |-> <<>>, erros |-> 0]

\* parseResultadoConsulta: the records returned, the console.warn lines (one per
\* return message) and the number of console.error lines of its catch
parseResultadoConsulta(result) ==
    IF result = Null \/ result[1].ConsultarNfseResposta = Null
    THEN [notas |-> <<>>, warns |-> <<>>, erros |-> 0]
    ELSE LET resposta == result[1].ConsultarNfseResposta[1]
         IN  IF resposta.ListaMensagemRetorno # Null
             THEN LET mensagens == resposta.ListaMensagemRetorno[1].MensagemRetorno
                      avisos == IF mensagens = Null THEN <<>>
                                ELSE [i \in 1..Len(mensagens[1].itens) |->
                                         mensagens[1].itens[i][1]]
                  IN  [notas |-> <<>>, warns |-> avisos, erros |-> 0]
             ELSE IF resposta.ListaNfse # Null /\ resposta.ListaNfse[1].CompNfse # Null
             THEN LET r == mapearCompNfse(resposta.ListaNfse[1].CompNfse[1].itens)
                  IN  [notas |-> r.notas, warns |-> <<>>, erros |-> r.erros]
             ELSE [notas |-> <<>>, warns |-> <<>>, erros |-> 0]

\* the ends of the two awaits of consultarNfse: createClientAsync throws, or
\* ConsultarNfseAsync throws, or it gives a result object
RespostasSoap ==
    {[tipo |-> "wsdl", result |-> Null], [tipo |-> "falha", result |-> Null]}
        \cup {[tipo |-> "ok", result |-> r] :
                 r \in {Null} \cup RespostasComMensagens
                        \cup {Resposta(Null, Some([CompNfse |-> Some(Lista(<<c, c>>))])) :
                                 c \in {Null, Some([InfNfse |-> Null])}}
                        \cup {Resposta(Null, Some([CompNfse |-> Some(Unico(
                                 Some([InfNfse |-> Some([Numero |-> <<"7">>,
                                                         Servico |-> Null,
                                                         Cnpj |-> Some(CnpjDigitos)])])))]))}}

\* consultarNfse of the municipal client; its catch logs and throws the error again
consultarNfse(r) ==
    IF recife.httpsAgent = Null
    THEN Chamada("municipal", "consultarNfse", Null,
                 "Certificado digital nao configurado", 0, Null, <<>>)
    ELSE IF r.tipo = "wsdl"
    THEN Chamada("municipal", "consultarNfse", Some(r), "SOAP", 1, Null, <<>>)
    ELSE IF r.tipo = "falha"
    THEN Chamada("municipal", "consultarNfse", Some(r), "SOAP", 2, Null, <<>>)
    ELSE LET lido == parseResultadoConsulta(r.result)
         IN  Chamada("municipal", "consultarNfse", Some(r), "", 2,
                     Some([notas |-> lido.notas]), lido.warns)

(***************************************************************************)
(* Stored invoices (nfse_metadata) and the object storage behind them.     *)
(* n3 has a path whose object is gone; n4 has no PDF path; x9 is no row.   *)
(***************************************************************************)
\* [a-zA-Z]
Letras ==
    {"a", "b", "c", "d", "e", "f", "g", "h", "i", "j", "k", "l", "m",
     "n", "o", "p", "q", "r", "s", "t", "u", "v", "w", "x", "y", "z",
     "A", "B", "C", "D", "E", "F", "G", "H", "I", "J", "K", "L", "M",
     "N", "O", "P", "Q", "R", "S", "T", "U", "V", "W", "X", "Y", "Z"}

\* the characters of the names below that \s matches
Brancos == {" ", "\t"}

\* .replace(/\s+/g, "_")
RECURSIVE replaceBrancos(_)
replaceBrancos(texto) ==
    IF texto = <<>> THEN <<>>
    ELSE IF Head(texto) \notin Brancos THEN <<Head(texto)>> \o replaceBrancos(Tail(texto))
    ELSE IF Len(texto) > 1 /\ texto[2] \in Brancos THEN replaceBrancos(Tail(texto))
    ELSE <<"_">> \o replaceBrancos(Tail(texto))

\* .replace(/[^a-zA-Z0-9\s]/g, "").replace(/\s+/g, "_").slice(0, 30)
cleanName(nome) ==
    LET semOutros == SelectSeq(nome, LAMBDA c : c \in Letras \cup Digitos \cup Brancos)
        comSublinhado == replaceBrancos(semOutros)
    IN  SubSeq(comSublinhado, 1, IF Len(comSublinhado) < 30 THEN Len(comSublinhado) ELSE 30)

\* generateFileName of the shared module, for the four texts it is given
generateFileName(cnpj, nomeTomador, dataEmissao, tipo) ==
    replaceNaoDigitos(cnpj) \o <<"_">> \o cleanName(nomeTomador) \o <<"_">> \o dataEmissao
        \o <<"_", "N", "F", "S", "-", "e", ".">> \o tipo

\* the file name the two download routes build for a stored invoice: the name falls
\* back to "Tomador" and the date to the day of the request (hoje)
filename(nfse, hoje, tipo) ==
    LET nome == IF nfse.nomeTomador = Null THEN <<>> ELSE nfse.nomeTomador[1]
    IN  replaceNaoDigitos(nfse.cnpjTomador) \o <<"_">>
            \o cleanName(Ou(nome, <<"T", "o", "m", "a", "d", "o", "r">>)) \o <<"_">>
            \o (IF nfse.dataEmissao = Null THEN hoje ELSE nfse.dataEmissao[1])
            \o <<"_", "N", "F", "S", "-", "e", ".">> \o tipo

Pdf == <<"p", "d", "f">>

\* calendar dates as the database and toISOString().split("T")[0] write them
Data1 == <<"2", "0", "2", "4", "-", "0", "1", "-", "1", "5">>

DataDeHoje == <<"2", "0", "2", "4", "-", "0", "2", "-", "0", "1">>

AnaLima == <<"A", "n", "a", " ", "L", "i", "m", "a">>

\* customer names: none, empty, plain, with punctuation and runs of blanks, and one
\* of 35 characters with a blank at every sixth
NomesTomador ==
    {Null, Some(<<>>), Some(AnaLima), Some(<<"J", "&", "J", " ", " ", "C", "o", "m", ".", "\t", "L", "t", "d", "a">>),
     Some([i \in 1..35 |-> IF i % 6 = 0 THEN " " ELSE "x"])}

NfseDb ==
    { [id |-> "n1", arquivoPdfPath |-> Some("/objects/p1"), cnpjTomador |-> CnpjFormatado,
       nomeTomador |-> Some(AnaLima), dataEmissao |-> Some(Data1)],
      [id |-> "n2", arquivoPdfPath |-> Some("/objects/p2"), cnpjTomador |-> CnpjDigitos,
       nomeTomador |-> Some(AnaLima), dataEmissao |-> Some(Data1)],
      [id |-> "n3", arquivoPdfPath |-> Some("/objects/p3"), cnpjTomador |-> OutroCnpj,
       nomeTomador |-> Null, dataEmissao |-> Null],
      [id |-> "n4", arquivoPdfPath |-> Null, cnpjTomador |-> OutroCnpj,
       nomeTomador |-> Some(<<>>), dataEmissao |-> Some(Data1)] }

\* the entry name of each stored invoice in a batch of today
filenameNoLote == [nfse \in NfseDb |-> filename(nfse, DataDeHoje, Pdf)]

Objetos == {"/objects/p1", "/objects/p2"}

NfseIds == {"n1", "n2", "n3", "n4", "x9"}

\* the order in which a query without ORDER BY over the primary key returns rows
Posicao(id) ==
    CASE id = "n1" -> 1 [] id = "n2" -> 2 [] id = "n3" -> 3 [] id = "n4" -> 4 [] OTHER -> 5

\* DatabaseStorage.getNfseById: the rows with that id (none or one)
getNfseById(id) == {n \in NfseDb : n.id = id}

RECURSIVE SortedRows(_)
SortedRows(rows) ==
    IF rows = {} THEN <<>>
    ELSE LET m == CHOOSE r \in rows : \A o \in rows : Posicao(r.id) <= Posicao(o.id)
         IN  <<m>> \o SortedRows(rows \ {m})

\* one SELECT ... WHERE id IN (ids): each row once, in table order
getNfseByIdsInArray(ids) ==
    SortedRows({n \in NfseDb : \E i \in 1..Len(ids) : ids[i] = n.id})

\* DatabaseStorage.getNfseByIds: one lookup per id, in the order given
RECURSIVE getNfseByIds(_)
getNfseByIds(ids) ==
    IF ids = <<>> THEN <<>>
    ELSE LET found == getNfseById(Head(ids))
         IN  IF found = {} THEN getNfseByIds(Tail(ids))
             ELSE <<CHOOSE n \in found : TRUE>> \o getNfseByIds(Tail(ids))

\* ObjectStorageService.getObjectEntityFile resolves (does not throw ObjectNotFoundError)
ObjetoExiste(path) == path \in Objetos

MaxIds == 3

\* request bodies: the nfseIds array (possibly empty)
Lotes == SeqsUpTo(NfseIds, MaxIds)

\* res.headersSent: the first archive byte written to the response sends the headers
headersSent(r) == r.status # 0

ResInit == [status |-> 0, contentType |-> "", ended |-> FALSE]

PdfInit == [status |-> 0, enviado |-> FALSE, auditoria |-> "nenhuma"]

MaxLogs == 2

\* the route sets the archive headers and starts the archiver without the 404 check
IniciarLoteSemRejeicao(nfseIds) ==
    /\ bpc = "ocioso"
    /\ lote' = nfseIds
    /\ IF Len(nfseIds) < 1
       THEN /\ res' = [status |-> 400, contentType |-> "application/json", ended |-> TRUE]
            /\ bpc' = "fim"
            /\ UNCHANGED nfseList
       ELSE /\ nfseList' = getNfseByIds(nfseIds)
            /\ res' = [status |-> 0, contentType |-> "application/zip", ended |-> FALSE]
            /\ bpc' = "anexando"
    /\ idx' = 1
    /\ UNCHANGED <<fila, zipEntries, lidos, finalizado, console, downloadLogs, pdf>>

\* the route up to its first await inside the loop: validation, lookup, 404,
\* headers, archiver("zip") piped to the response
IniciarLote(nfseIds) ==
    /\ bpc = "ocioso"
    /\ lote' = nfseIds
    /\ IF Len(nfseIds) < 1
       THEN /\ res' = [status |-> 400, contentType |-> "application/json", ended |-> TRUE]
            /\ bpc' = "fim"
            /\ UNCHANGED nfseList
       ELSE /\ nfseList' = getNfseByIds(nfseIds)
            /\ IF Len(nfseList') = 0
               THEN /\ res' = [status |-> 404, contentType |-> "application/json",
                               ended |-> TRUE]
                    /\ bpc' = "fim"
               ELSE /\ res' = [status |-> 0, contentType |-> "application/zip",
                               ended |-> FALSE]
                    /\ bpc' = "anexando"
    /\ idx' = 1
    /\ UNCHANGED <<fila, zipEntries, lidos, finalizado, console, downloadLogs, pdf>>

\* one iteration of the for loop over nfseList
AnexarProximo ==
    /\ bpc = "anexando"
    /\ idx <= Len(nfseList)
    /\ LET nfse == nfseList[idx]
       IN  IF nfse.arquivoPdfPath = Null
           THEN UNCHANGED <<fila, console>>
           ELSE IF ObjetoExiste(nfse.arquivoPdfPath[1])
           THEN /\ fila' = Append(fila, [ord |-> idx, id |-> nfse.id,
                                          name |-> filenameNoLote[nfse]])
                /\ UNCHANGED console
           ELSE /\ console' = Append(console, [id |-> nfse.id, motivo |-> "ObjectNotFoundError"])
                /\ UNCHANGED fila
    /\ idx' = idx + 1
    /\ UNCHANGED <<bpc, lote, nfseList, zipEntries, lidos, finalizado, res, downloadLogs, pdf>>

\* the loop is over: await storage.createDownloadLog, which succeeds or rejects
RegistrarLote(ok) ==
    /\ bpc = "anexando"
    /\ idx > Len(nfseList)
    /\ IF ok
       THEN /\ downloadLogs' = Append(downloadLogs,
                                      [tipoDownload |-> "lote", notas |-> Len(nfseList)])
            /\ bpc' = "finalizando"
            /\ UNCHANGED res
       ELSE \* catch: the 500 is sent only if no archive byte has reached the response
            /\ bpc' = "fim"
            /\ res' = IF ~headersSent(res)
                      THEN [status |-> 500, contentType |-> "application/json", ended |-> TRUE]
                      ELSE res
            /\ UNCHANGED downloadLogs
    /\ UNCHANGED <<lote, nfseList, idx, fila, zipEntries, lidos, finalizado, console, pdf>>

\* a read stream handed to the archiver has its data ready
StreamLido ==
    /\ \E k \in 1..Len(fila) :
          /\ \A j \in 1..Len(lidos) : lidos[j] # fila[k].ord
          /\ lidos' = Append(lidos, fila[k].ord)
    /\ UNCHANGED <<bpc, lote, nfseList, idx, fila, zipEntries, finalizado, res, console,
                   downloadLogs, pdf>>

\* archiver writes the entry at the head of its queue once its stream has been read;
\* nothing more is written to a response that has ended
ArchiverEscreve ==
    /\ fila # <<>>
    /\ ~res.ended
    /\ \E j \in 1..Len(lidos) : lidos[j] = Head(fila).ord
    /\ zipEntries' = Append(zipEntries, Head(fila))
    /\ fila' = Tail(fila)
    /\ res' = [res EXCEPT !.status = 200]
    /\ UNCHANGED <<bpc, lote, nfseList, idx, lidos, finalizado, console, downloadLogs, pdf>>

\* await archive.finalize(): resolves when the queue has drained and the archive is closed
FinalizarLote ==
    /\ bpc = "finalizando"
    /\ fila = <<>>
    /\ finalizado' = TRUE
    /\ res' = [res EXCEPT !.status = 200, !.ended = TRUE]
    /\ bpc' = "fim"
    /\ UNCHANGED <<lote, nfseList, idx, fila, zipEntries, lidos, console, downloadLogs, pdf>>

\* GET /api/portal/nfse/:chave/pdf: downloadDanfse resolves or throws (baixou),
\* then createDownloadLog resolves or rejects (registrou)
PortalPdf(baixou, registrou) ==
    /\ Len(downloadLogs) < MaxLogs
    /\ IF ~isCertificadoConfigurado(nacional)
       THEN /\ pdf' = [status |-> 400, enviado |-> FALSE, auditoria |-> "nenhuma"]
            /\ UNCHANGED downloadLogs
       ELSE IF ~baixou
       THEN /\ pdf' = [status |-> 500, enviado |-> FALSE, auditoria |-> "nenhuma"]
            /\ UNCHANGED downloadLogs
       ELSE IF ~registrou
       THEN /\ pdf' = [status |-> 500, enviado |-> FALSE, auditoria |-> "falhou"]
            /\ UNCHANGED downloadLogs
       ELSE /\ pdf' = [status |-> 200, enviado |-> TRUE, auditoria |-> "ok"]
            /\ downloadLogs' = Append(downloadLogs, [tipoDownload |-> "pdf", notas |-> 0])
    /\ UNCHANGED <<bpc, lote, nfseList, idx, fila, zipEntries, lidos, finalizado, res, console>>

SemChamada == Chamada("nenhum", "nenhuma", Null, "", 0, Null, <<>>)

SemPortal == [sistema |-> "", cliente |-> "nenhum", status |-> 0, fechada |-> FALSE]

SemCalc == [op |-> "nenhuma", entrada |-> <<>>, saida |-> <<>>]

ExtraIdle ==
    /\ chamada = SemChamada
    /\ portal = SemPortal
    /\ calc = SemCalc

BatchIdle ==
    /\ bpc = "ocioso"
    /\ lote = <<>>
    /\ nfseList = <<>>
    /\ idx = 1
    /\ fila = <<>>
    /\ zipEntries = <<>>
    /\ lidos = <<>>
    /\ finalizado = FALSE
    /\ res = ResInit
    /\ console = <<>>
    /\ downloadLogs = <<>>
    /\ pdf = PdfInit

QueryIdle ==
    /\ qpc = "ociosa"
    /\ periodo = [dataInicio |-> Instante(0, 0), dataFim |-> Instante(0, 0)]
    /\ notas = <<>>
    /\ ultNsu = "0"
    /\ temMais = TRUE
    /\ pedidos = <<>>
    /\ resultado = Null
    /\ erro = ""
    /\ filtro = Null
    /\ ultimaResposta = "nenhuma"

CertInit ==
    /\ nacional = NacionalInit
    /\ recife = RecifeInit
    /\ ultimaConfig = SemConfig
    /\ QueryIdle
    /\ restantes = 0
    /\ BatchIdle
    /\ ExtraIdle

UploadCertificado ==
    \E req \in CertRequests : PostCertificado(req) /\ UNCHANGED <<qvars, bvars, xvars>>

CertNext == UploadCertificado

SpecCert == CertInit /\ [][CertNext]_vars

\* the uploads that run beside a query: the two usable bundles, each with "s1"
QueryCertRequests ==
    {req \in CertRequests : req.sistema = "nacional" /\ req.senha = "s1"
                            /\ req.file.nome \in {"b1", "b2"}}
      \cup {req \in CertRequests : req.sistema = "nacional" /\ req.senha = "s2"
                                   /\ req.file.nome = "b2"}

QueryInit ==
    /\ nacional = NacionalInit
    /\ recife = RecifeInit
    /\ ultimaConfig = SemConfig
    /\ QueryIdle
    /\ restantes \in 0..MaxPages
    /\ BatchIdle
    /\ ExtraIdle

UploadDuranteConsulta ==
    \E req \in QueryCertRequests : PostCertificado(req) /\ UNCHANGED <<qvars, bvars, xvars>>

\* GET /api/portal/nfse without cnpjTomador, reduced to its call of the national client
ConsultaPorPeriodo == IniciarConsulta /\ filtro' = Null /\ UNCHANGED xvars

QueryNext == UploadDuranteConsulta \/ ConsultaPorPeriodo \/ RespostaDoPortal

SpecQuery == QueryInit /\ [][QueryNext]_vars

\* every request is answered or fails within the transport's timeout
FairSpecQuery == SpecQuery /\ WF_vars(RespostaDoPortal)

\* the upload that runs beside the download routes: bundle b1 with its secret
BatchCertRequests ==
    {req \in CertRequests : req.sistema = "nacional" /\ req.senha = "s1"
                            /\ req.file.nome = "b1"}

BatchInit ==
    /\ nacional = NacionalInit
    /\ recife = RecifeInit
    /\ ultimaConfig = SemConfig
    /\ QueryIdle
    /\ restantes = 0
    /\ BatchIdle
    /\ ExtraIdle

UploadAntesDoPdf ==
    \E req \in BatchCertRequests : PostCertificado(req) /\ UNCHANGED <<qvars, bvars, xvars>>

BatchDownload == \E nfseIds \in Lotes : IniciarLote(nfseIds) /\ UNCHANGED <<cqvars, xvars>>

Anexar == AnexarProximo /\ UNCHANGED <<cqvars, xvars>>

Registrar == \E ok \in BOOLEAN : RegistrarLote(ok) /\ UNCHANGED <<cqvars, xvars>>

Leitura == StreamLido /\ UNCHANGED <<cqvars, xvars>>

Escrita == ArchiverEscreve /\ UNCHANGED <<cqvars, xvars>>

Finalizar == FinalizarLote /\ UNCHANGED <<cqvars, xvars>>

DownloadPdf == \E baixou, registrou \in BOOLEAN : PortalPdf(baixou, registrou) /\ UNCHANGED <<cqvars, xvars>>

BatchNext == BatchDownload \/ Anexar \/ Registrar \/ Leitura \/ Escrita \/ Finalizar

SpecBatch == BatchInit /\ [][BatchNext]_vars

\* the batch route beside the portal PDF route, which needs the national certificate
DownloadsNext == BatchNext \/ UploadAntesDoPdf \/ DownloadPdf

SpecDownloads == BatchInit /\ [][DownloadsNext]_vars

(***************************************************************************)
(* The operations of the two clients called one by one, between uploads.   *)
(***************************************************************************)
\* the uploads that run beside the calls of the clients: a usable bundle and one
\* without its key, for either target
ClienteCertRequests ==
    {req \in CertRequests : /\ req.senha = "s1"
                            /\ req.file.nome \in {"b1", "b3"}
                            /\ req.sistema \in {"nacional", "municipal"}}

UploadEntreChamadas ==
    \E req \in ClienteCertRequests :
        PostCertificado(req) /\ UNCHANGED <<qvars, bvars, xvars>>

ChamarConsultarNfsePorChave ==
    \E r \in RespostasNfse :
        /\ chamada' = consultarNfsePorChave(Chave("A", "2"), r)
        /\ UNCHANGED <<cqvars, bvars, portal, calc>>

ChamarDownloadDanfse ==
    \E r \in RespostasDanfse :
        /\ chamada' = downloadDanfse(Chave("A", "2"), r)
        /\ UNCHANGED <<cqvars, bvars, portal, calc>>

ChamarConsultarNfse ==
    \E r \in RespostasSoap :
        /\ chamada' = consultarNfse(r)
        /\ UNCHANGED <<cqvars, bvars, portal, calc>>

ClientesNext ==
    \/ UploadEntreChamadas
    \/ ConsultaPorPeriodo
    \/ RespostaDoPortal
    \/ ChamarConsultarNfsePorChave
    \/ ChamarDownloadDanfse
    \/ ChamarConsultarNfse

SpecClientes == CertInit /\ [][ClientesNext]_vars

(***************************************************************************)
(* GET /api/portal/nfse with cnpjPrestador given.  portal is the request   *)
(* served: the system it named, the client that was called for it and the  *)
(* status of its response (0 while the national client is still awaited),  *)
(* and whether the caller has closed the connection meanwhile.             *)
(***************************************************************************)
PortalInit ==
    /\ nacional = NacionalInit
    /\ recife = RecifeInit
    /\ ultimaConfig = SemConfig
    /\ QueryIdle
    /\ restantes \in 0..1
    /\ BatchIdle
    /\ ExtraIdle

\* the handler up to its first await, or to its response when it awaits nothing
PortalNfse ==
    \E sistema \in {"nacional", "municipal", "undefined"},
       cnpjTomador \in {Null, Some(CnpjFormatado), Some(CnpjDigitos)} :
        /\ portal = SemPortal
        /\ IF sistema = "municipal" /\ isCertificadoConfigurado(recife)
           THEN \E r \in RespostasSoap :
                    /\ chamada' = consultarNfse(r)
                    /\ portal' = [sistema |-> sistema, cliente |-> "municipal",
                                  status |-> IF chamada'.erro = "" THEN 200 ELSE 500,
                                  fechada |-> FALSE]
                    /\ UNCHANGED <<cqvars, bvars, calc>>
           ELSE IF isCertificadoConfigurado(nacional)
           THEN /\ IniciarConsulta
                /\ filtro' = cnpjTomador
                /\ portal' = [sistema |-> sistema, cliente |-> "nacional", status |-> 0,
                              fechada |-> FALSE]
                /\ UNCHANGED <<chamada, calc>>
           ELSE /\ portal' = [sistema |-> sistema, cliente |-> "nenhum", status |-> 400,
                              fechada |-> FALSE]
                /\ UNCHANGED <<cqvars, bvars, chamada, calc>>

\* the national client's request ends; when its call ends too, the handler responds
RespostaDaRota ==
    \E r \in RespostasPossiveis :
        /\ ReceberResposta(r)
        /\ portal' = [portal EXCEPT !.status = CASE qpc' = "concluida" -> 200
                                                 [] qpc' = "falhou" -> 500
                                                 [] OTHER -> 0]

\* the caller gives up the request it is waiting for and closes its connection;
\* the handler has no listener for that and nothing of the server changes
ClienteFecha ==
    /\ portal.cliente = "nacional"
    /\ portal.status = 0
    /\ ~portal.fechada
    /\ portal' = [portal EXCEPT !.fechada = TRUE]
    /\ UNCHANGED <<cqvars, bvars, chamada, calc>>

PortalNext == UploadEntreChamadas \/ PortalNfse \/ RespostaDaRota \/ ClienteFecha

SpecPortal == PortalInit /\ [][PortalNext]_vars

(***************************************************************************)
(* The parsing and formatting functions of the two clients, each applied   *)
(* to the inputs it can meet.                                              *)
(***************************************************************************)
XmlDocs ==
    {XmlDoc(d, v, s, t) : d \in {Null, Some(Instante(2, 10))},
                          v \in {Null} \cup {Some(x) : x \in ValTextos},
                          s \in {Null} \cup {Some(x) : x \in ValTextos},
                          t \in {Null, Some(CnpjDigitos)}}

\* one evaluation: the function named op applied to entrada gave saida
Calcular(op, entrada, saida) ==
    /\ calc = SemCalc
    /\ calc' = [op |-> op, entrada |-> entrada, saida |-> saida]
    /\ UNCHANGED <<cqvars, bvars, chamada, portal>>

CalcParseNfseXml ==
    \E xml \in XmlDocs, chave \in {ChaveVazia, Chave("A", "1")} :
        Calcular("parseNfseXml", <<xml, chave>>, <<parseNfseXml(xml, chave)>>)

CalcParseResultadoConsulta ==
    \E result \in ResultadosSoap :
        Calcular("parseResultadoConsulta", <<result>>, <<parseResultadoConsulta(result)>>)

\* The clock.  An instant is a number of hours since day 0, 00:00 UTC.  The time
\* zone of the process adds `antes` hours to UTC before the instant `mudanca` and
\* `depois` hours from it on; a zone without daylight saving has the two equal.
Fusos ==
    { [nome |-> "UTC",              antes |-> 0,  depois |-> 0,  mudanca |-> 0],
      [nome |-> "America/Recife",   antes |-> -3, depois |-> -3, mudanca |-> 0],
      [nome |-> "America/New_York", antes |-> -5, depois |-> -4, mudanca |-> 25 * 24 + 7],
      [nome |-> "Europe/Lisbon",    antes |-> 1,  depois |-> 0,  mudanca |-> 25 * 24 + 1] }

\* trintaDiasAtras = new Date(hoje); trintaDiasAtras.setDate(hoje.getDate() - 30):
\* the same local time of day, 30 local calendar days earlier, turned back into an
\* instant with the offset in force at that local time
trintaDiasAtras(fuso, hoje) ==
    LET LocalTime == hoje + (IF hoje < fuso.mudanca THEN fuso.antes ELSE fuso.depois)
        local == LocalTime - 30 * 24
    IN  IF local - fuso.antes < fuso.mudanca THEN local - fuso.antes
        ELSE IF local - fuso.depois >= fuso.mudanca THEN local - fuso.depois
        ELSE local - fuso.antes

\* date.toISOString().split("T")[0]: the calendar day in UTC
toISODate(instante) == instante \div 24

\* dataInicio || trintaDiasAtras..., dataFim || hoje...; an absent or empty date is Null
JanelaPadrao(fuso, hoje, dataInicio, dataFim) ==
    [inicio |-> IF dataInicio = Null THEN toISODate(trintaDiasAtras(fuso, hoje))
                ELSE dataInicio[1],
     fim |-> IF dataFim = Null THEN toISODate(hoje) ELSE dataFim[1]]

MaxTexto == 2

\* document texts: "<", "a", U+00E7 and U+20AC in every order
Textos == SeqsUpTo({60, 97, 231, 8364}, MaxTexto)

\* a document of a page, built as the portal builds it (gzip, then base64), or cut
\* short in transit, or base64 of the bare text
CalcDecodificar ==
    \E texto \in Textos, chNFSe \in {Null, Some(ChaveVazia), Some(Chave("A", "1"))},
       carga \in {"gzip+base64", "truncada", "sem gzip"} :
        LET inteira == toStringBase64(gzipSync(utf8Write(texto)))
            docZipB64 == CASE carga = "gzip+base64" -> inteira
                           [] carga = "truncada" -> SubSeq(inteira, 1, Len(inteira) - 4)
                           [] OTHER -> toStringBase64(utf8Write(texto))
        IN  Calcular("parseDistribuicaoResponse", <<chNFSe, texto, carga>>,
                     <<decodificarDoc([chNFSe |-> chNFSe, docZipB64 |-> docZipB64])>>)

\* the name of one stored invoice as each route builds it and, when the invoice has
\* the texts generateFileName takes, as that function builds it
CalcFilename ==
    \E nfse \in [cnpjTomador : {CnpjFormatado, CnpjDigitos}, nomeTomador : NomesTomador,
                  dataEmissao : {Null, Some(Data1)}],
       tipo \in {Pdf, <<"x", "m", "l">>} :
        Calcular("filename", <<nfse, tipo>>,
                 <<filename(nfse, DataDeHoje, tipo),
                   IF nfse.nomeTomador = Null \/ nfse.dataEmissao = Null THEN Null
                   ELSE Some(generateFileName(nfse.cnpjTomador, nfse.nomeTomador[1],
                                              nfse.dataEmissao[1], tipo))>>)

OpsDeJanela == {"consultarNfsesPorTomador", "consultarNfsePorTomador", "GET /api/portal/nfse"}

\* the defaulting of consultarNfsesPorTomador, consultarNfsePorTomador and of
\* GET /api/portal/nfse (the same statements in the three places), on day 40
CalcJanela ==
    \E op \in OpsDeJanela, fuso \in Fusos, hora \in 0..23,
       dataInicio \in {Null, Some(20)}, dataFim \in {Null, Some(35)} :
        Calcular(op, <<fuso, 40 * 24 + hora, dataInicio, dataFim>>,
                 <<fuso, JanelaPadrao(fuso, 40 * 24 + hora, dataInicio, dataFim)>>)

CamposNext ==
    \/ CalcParseNfseXml
    \/ CalcParseResultadoConsulta
    \/ CalcJanela
    \/ CalcDecodificar
    \/ CalcFilename

SpecCampos == CertInit /\ [][CamposNext]_vars

(***************************************************************************)
(* Properties                                                              *)
(***************************************************************************)

\* C1: every consultarNfsesPorPeriodo call whose request is in flight ends, returned
\* or thrown, after finitely many page fetches, whatever finite run of pages the
\* portal serves; a first page of fewer than 50 documents ends it at once.
C1_ConsultaTermina == (qpc = "aguardando") ~> (qpc \in {"concluida", "falhou"})

C1_PrimeiraPaginaCurta ==
    /\ qpc = "concluida"
    /\ Len(pedidos) = 1
    /\ Len(notas) \in 1..(PageSize - 1)

\* C2: within one call the first request carries the sentinel "0" and no cursor
\* value is requested twice.
C2_CursorNuncaRepetido ==
    /\ pedidos # <<>> => pedidos[1].ultNSU = "0"
    /\ \A i, j \in 1..Len(pedidos) : i < j => pedidos[i].ultNSU # pedidos[j].ultNSU

UploadInvalido(c) == ~(AbreBundle(c.file, c.senha) /\ TemCertEChave(c.file))

\* C3: a configure call with a wrong secret, a malformed bundle or a bundle lacking
\* a certificate or key returns false (the route answers 400, not 500) and leaves
\* both clients' fields exactly as they were.
C3_FalhaNaoAlteraIdentidade ==
    [][ (ultimaConfig'.alvo # "nenhum" /\ UploadInvalido(ultimaConfig'))
           => /\ ultimaConfig'.sucesso = FALSE
              /\ ultimaConfig'.status = 400
              /\ nacional' = nacional
              /\ recife' = recife ]_vars

C3_SegredoErradoSobreConfigurado ==
    /\ ultimaConfig.alvo = "nacional"
    /\ ultimaConfig.file.der
    /\ ultimaConfig.file.senha # ultimaConfig.senha
    /\ ~ultimaConfig.sucesso
    /\ isCertificadoConfigurado(nacional)

\* C4: an upload for the national system leaves the municipal client unchanged and
\* an upload for the municipal system leaves the national client unchanged.
C4_AlvosIndependentes ==
    [][ /\ ultimaConfig'.sistema = "nacional" => recife' = recife
        /\ ultimaConfig'.sistema = "municipal" => nacional' = nacional ]_vars

C4_NacionalConfiguradoAposMunicipal ==
    /\ ultimaConfig.sistema = "nacional"
    /\ ultimaConfig.sucesso
    /\ isCertificadoConfigurado(recife)
    /\ recife.httpsAgent # nacional.httpsAgent

IdentidadeNacionalDe(b) ==
    [certPem |-> Some(certificateToPem(b.certBag)),
     keyPem |-> Some(privateKeyToPem(b.keyBag)),
     httpsAgent |-> Some(NewAgent(certificateToPem(b.certBag), privateKeyToPem(b.keyBag)))]

IdentidadeMunicipalDe(b, s) ==
    [certificado |-> Some([pfxBuffer |-> b, senha |-> s]),
     httpsAgent |-> Some(NewAgent(certificateToPem(b.certBag), privateKeyToPem(b.keyBag)))]

\* C5: each client's identity is entirely absent, or entirely present and derived
\* from one bundle that holds a certificate and a key.
C5_IdentidadeInteira ==
    /\ \/ nacional = NacionalInit
       \/ \E b \in Bundles : TemCertEChave(b) /\ nacional = IdentidadeNacionalDe(b)
    /\ \/ recife = RecifeInit
       \/ \E b \in Bundles : TemCertEChave(b) /\ recife = IdentidadeMunicipalDe(b, b.senha)

C5_FalhaNoMeioAposSucesso ==
    /\ ultimaConfig.alvo = "nacional"
    /\ AbreBundle(ultimaConfig.file, ultimaConfig.senha)
    /\ ultimaConfig.file.certBag \notin {Ausente, Ilegivel}
    /\ ~ultimaConfig.sucesso
    /\ isCertificadoConfigurado(nacional)

\* C6: all requests of one consultarNfsesPorPeriodo call leave with the same agent.
C6_IdentidadeCapturada ==
    \A i, j \in 1..Len(pedidos) : pedidos[i].agent = pedidos[j].agent

\* an id whose artifact the batch route can locate: a row, with a path, whose object exists
Localizavel(id) ==
    \E n \in NfseDb : n.id = id /\ n.arquivoPdfPath # Null /\ ObjetoExiste(n.arquivoPdfPath[1])

NaoLocalizados == {i \in 1..Len(lote) : ~Localizavel(lote[i])}

\* C7: a finalized archive of n requested invoices, k of them not locatable, holds
\* n-k entries, and k skips were recorded.
C7_EntradasESkips ==
    finalizado =>
        /\ Len(zipEntries) = Len(lote) - Cardinality(NaoLocalizados)
        /\ Len(console) = Cardinality(NaoLocalizados)

LoteAceito == nfseList # <<>>

\* C8: when the handler of an accepted batch has run to its end the archive is finalized.
C8_LoteAceitoFinaliza == (bpc = "fim" /\ LoteAceito) => finalizado

LoteRegistrado == \E i \in 1..Len(downloadLogs) : downloadLogs[i].tipoDownload = "lote"

\* C9: a failed audit write fails neither the batch archive nor the portal PDF.
C9_AuditoriaNaoDerruba ==
    /\ (bpc = "fim" /\ LoteAceito /\ ~LoteRegistrado) => (finalizado /\ res.status = 200)
    /\ pdf.auditoria = "falhou" => pdf.enviado

IdsDe(entries) == [i \in 1..Len(entries) |-> entries[i].id]

IsPrefix(a, b) == Len(a) <= Len(b) /\ \A i \in 1..Len(a) : a[i] = b[i]

\* C10: the entries written to the archive are, in order, the requested ids whose
\* artifact exists, whatever the order in which the read streams deliver.
C10_OrdemDoPedido ==
    /\ IsPrefix(IdsDe(zipEntries), SelectSeq(lote, Localizavel))
    /\ finalizado => IdsDe(zipEntries) = SelectSeq(lote, Localizavel)

C10_LeiturasForaDeOrdem ==
    /\ finalizado
    /\ Len(zipEntries) >= 2
    /\ zipEntries[1].id # zipEntries[2].id
    /\ lidos[1] # zipEntries[1].ord

\* a request whose id list is empty or names no stored invoice
LoteSemNotas == bpc # "ocioso" /\ \A i \in 1..Len(lote) : getNfseById(lote[i]) = {}

\* C11: a batch download whose id list is empty, or resolves to no stored invoice, is
\* rejected before any work: the response is a 400 or 404 without the archive's
\* Content-Type, no artifact is looked up or read, nothing is written to the archive
\* and no download_logs row is created.
C11_LoteVazioRejeitado ==
    LoteSemNotas =>
        /\ bpc = "fim"
        /\ res.status \in {400, 404}
        /\ res.contentType # "application/zip"
        /\ res.ended
        /\ fila = <<>> /\ lidos = <<>> /\ console = <<>>
        /\ zipEntries = <<>> /\ ~finalizado
        /\ downloadLogs = <<>>

C11_NenhumaNotaEncontrada ==
    /\ LoteSemNotas
    /\ lote # <<>>
    /\ res.status = 404

\* the invoice components of a municipal result, when none of them is null
ComponentesDe(result) ==
    IF result = Null \/ result[1].ConsultarNfseResposta = Null THEN <<>>
    ELSE LET resposta == result[1].ConsultarNfseResposta[1]
         IN  IF resposta.ListaMensagemRetorno # Null \/ resposta.ListaNfse = Null THEN <<>>
             ELSE IF resposta.ListaNfse[1].CompNfse = Null THEN <<>>
             ELSE IF \E i \in 1..Len(resposta.ListaNfse[1].CompNfse[1].itens) :
                        resposta.ListaNfse[1].CompNfse[1].itens[i] = Null THEN <<>>
             ELSE SelectSeq(resposta.ListaNfse[1].CompNfse[1].itens,
                            LAMBDA c : c[1].InfNfse # Null)

SemValorServicos(c) ==
    \/ c[1].InfNfse[1].Servico = Null
    \/ c[1].InfNfse[1].Servico[1].Valores = Null
    \/ c[1].InfNfse[1].Servico[1].Valores[1].ValorServicos = Null

\* C12: a record produced from a document without a value field (national: neither
\* vLiq nor ValorServicos in the XML; municipal: no Servico, Valores or ValorServicos)
\* has valor 0, and the parse logs no error.
C12_SemValorDaZero ==
    /\ (calc.op = "parseNfseXml" /\ calc.entrada[1].vLiq = Null
            /\ calc.entrada[1].ValorServicos = Null)
          => calc.saida[1].valor = Numero(0)
    /\ (calc.op = "parseResultadoConsulta" /\ ComponentesDe(calc.entrada[1]) # <<>>)
          => LET cs == ComponentesDe(calc.entrada[1])
             IN  /\ calc.saida[1].erros = 0
                 /\ Len(calc.saida[1].notas) = Len(cs)
                 /\ \A i \in 1..Len(cs) :
                        SemValorServicos(cs[i]) => calc.saida[1].notas[i].valor = Numero(0)

C12_DocumentoSemValor ==
    /\ calc.op = "parseNfseXml"
    /\ calc.entrada[1].vLiq = Null /\ calc.entrada[1].ValorServicos = Null
    /\ calc.entrada[1].toma # Null
    /\ calc.saida[1].valor = Numero(0)

NaoNegativo(valor) == ~valor.nan /\ valor.x1000 >= 0

\* C13: the valor of every record either client produces is a non-negative number,
\* 0 when the value text is not numeric.
C13_ValorNaoNegativo ==
    /\ calc.op = "parseNfseXml" => NaoNegativo(calc.saida[1].valor)
    /\ calc.op = "parseResultadoConsulta" =>
          \A i \in 1..Len(calc.saida[1].notas) : NaoNegativo(calc.saida[1].notas[i].valor)

\* the calendar day of the instant, in UTC or on the clock of the process
Hoje(fuso, instante) ==
    {instante \div 24,
     (instante + (IF instante < fuso.mudanca THEN fuso.antes ELSE fuso.depois)) \div 24}

\* C14: with no dates the customer query of either client (and the portal route)
\* asks for the window that ends today and starts exactly 30 days earlier; with one
\* date given the other is defaulted alone, the start to today minus 30 days and the
\* end to today.
C14_JanelaDeTrintaDias ==
    calc.op \in OpsDeJanela =>
        LET hoje == Hoje(calc.entrada[1], calc.entrada[2])
            dataInicio == calc.entrada[3]
            dataFim == calc.entrada[4]
            janela == calc.saida[2]
        IN  /\ (dataInicio = Null /\ dataFim = Null)
                  => (janela.fim \in hoje /\ janela.inicio = janela.fim - 30)
            /\ (dataInicio = Null /\ dataFim # Null)
                  => (janela.fim = dataFim[1] /\ janela.inicio + 30 \in hoje)
            /\ (dataInicio # Null /\ dataFim = Null)
                  => (janela.inicio = dataInicio[1] /\ janela.fim \in hoje)
            /\ (dataInicio # Null /\ dataFim # Null)
                  => (janela.inicio = dataInicio[1] /\ janela.fim = dataFim[1])

\* C20: once a distribution page has arrived whose body cannot be parsed, the call
\* of consultarNfsesPorPeriodo has failed: it never returns a list after such a page.
C20_PaginaIlegivelAborta == ultimaResposta = "ilegivel" => qpc = "falhou"

\* C17: a document text that was gzip-compressed and base64-encoded and put in a page
\* under the key K is decoded into a record whose chaveAcesso is K ("" when the page
\* gives the document no key) and whose xml is the text.
C17_DecodificaOQueFoiCodificado ==
    (calc.op = "parseDistribuicaoResponse" /\ calc.entrada[3] = "gzip+base64") =>
        calc.saida[1] = Some([chaveAcesso |-> IF calc.entrada[1] = Null THEN ChaveVazia
                                              ELSE calc.entrada[1][1],
                              xml |-> calc.entrada[2]])

C17_TextoComAcentoDecodificado ==
    /\ calc.op = "parseDistribuicaoResponse"
    /\ calc.entrada[3] = "gzip+base64"
    /\ calc.entrada[1] = Some(Chave("A", "1"))
    /\ calc.entrada[2] = <<231, 8364>>
    /\ calc.saida[1] # Null
    /\ calc.saida[1][1].xml = <<231, 8364>>

RespostaSoDeMensagens(r) ==
    /\ r.tipo = "ok"
    /\ \E m \in {Unico(Some(MensagemE10))}
                  \cup {Lista(l) : l \in SeqsUpTo({Some(MensagemE10), Some(MensagemE4)},
                                                   MaxMensagens) \ {<<>>}} :
           r.result = Resposta(Some([MensagemRetorno |-> Some(m)]), Null)

NumMensagens(r) == Len(r.result[1].ConsultarNfseResposta[1].ListaMensagemRetorno[1].MensagemRetorno[1].itens)

\* C16: a municipal response that holds nothing but a non-empty return message list
\* makes consultarNfse return normally, with an empty record list and one
\* console.warn line per message.
C16_SoMensagensDaListaVazia ==
    (chamada.op = "consultarNfse" /\ chamada.resposta # Null
         /\ RespostaSoDeMensagens(chamada.resposta[1])) =>
        /\ chamada.erro = ""
        /\ chamada.retorno = Some([notas |-> <<>>])
        /\ Len(chamada.warns) = NumMensagens(chamada.resposta[1])

C16_DuasMensagensDoisAvisos ==
    /\ chamada.op = "consultarNfse"
    /\ chamada.resposta # Null
    /\ RespostaSoDeMensagens(chamada.resposta[1])
    /\ NumMensagens(chamada.resposta[1]) = 2
    /\ chamada.warns = <<MensagemE10, MensagemE4>>
    /\ chamada.retorno = Some([notas |-> <<>>])

\* C18: while a client holds no identity, each of its certificate-requiring
\* operations fails with "Certificado digital nao configurado" and issues no request:
\* the recorded calls (consultarNfsePorChave, downloadDanfse, municipal consultarNfse)
\* and the period query with its first distribuicaoDFe.
C18_SemIdentidadeSemRequisicao ==
    [][/\ (chamada' # chamada /\ chamada'.cliente = "nacional"
              /\ ~isCertificadoConfigurado(nacional)) =>
               (chamada'.erro = "Certificado digital nao configurado"
                   /\ chamada'.requisicoes = 0)
       /\ (chamada' # chamada /\ chamada'.cliente = "municipal"
              /\ ~isCertificadoConfigurado(recife)) =>
               (chamada'.erro = "Certificado digital nao configurado"
                   /\ chamada'.requisicoes = 0)
       /\ (qpc = "ociosa" /\ qpc' # "ociosa" /\ ~isCertificadoConfigurado(nacional)) =>
               (qpc' = "falhou" /\ erro' = "Certificado digital nao configurado"
                   /\ pedidos' = pedidos)]_vars

C18_TodasRecusadas ==
    /\ ~isCertificadoConfigurado(nacional)
    /\ qpc = "falhou"
    /\ erro = "Certificado digital nao configurado"
    /\ pedidos = <<>>
    /\ chamada.op = "downloadDanfse"
    /\ chamada.erro = "Certificado digital nao configurado"
    /\ chamada.requisicoes = 0

DoTomador(nota) ==
    /\ nota.xml.toma # Null
    /\ replaceNaoDigitos(nota.xml.toma[1]) = replaceNaoDigitos(filtro[1])

\* C15: consultarNfsesPorTomador returns exactly the records of the period whose
\* document names a customer with the digits of the queried tax id, whether the
\* query value is "12.345.678/0001-99" or "12345678000199".
C15_FiltraPorDigitos ==
    (qpc = "concluida" /\ filtro # Null) => resultado = Some(SelectSeq(notas, DoTomador))

\* C19: a portal query is served by the client of the system it names, never by
\* the other one.
C19_ClienteDoSistemaNomeado ==
    /\ portal.sistema = "municipal" => portal.cliente \in {"municipal", "nenhum"}
    /\ portal.sistema = "nacional" => portal.cliente \in {"nacional", "nenhum"}

\* C21: a transport error on any page makes the national query fail: the request is
\* not sent again, no page is fetched after it and the call returns no list, whatever
\* records the earlier pages gave.
C21_ErroDeTransporteEncerra ==
    [][/\ ultimaResposta' = "erro" =>
              (qpc' = "falhou" /\ erro' = "HTTP" /\ resultado' = Null
                  /\ (qpc = "aguardando" => pedidos' = pedidos))
       /\ qpc = "falhou" => (qpc' = "falhou" /\ pedidos' = pedidos /\ resultado' = Null)]_vars

C21_ErroNaSegundaPagina ==
    /\ ultimaResposta = "erro"
    /\ qpc = "falhou"
    /\ Len(pedidos) = 2
    /\ notas # <<>>
    /\ resultado = Null

\* C23: the loop stops exactly when the page the portal returned holds fewer than 50
\* documents (none included), counted as the portal returned them: a page of 50 is
\* followed by another fetch, a shorter page never is.
C23_ParaEmPaginaCurta ==
    [][\A r \in RespostasPossiveis :
           (ReceberResposta(r) /\ r.tipo = "json") =>
               (qpc' = "aguardando" <=> Len(r.docZip) = PageSize)]_vars

DiaNoPeriodo(nota) ==
    /\ nota.dataEmissao # Null
    /\ nota.dataEmissao[1].dia >= periodo.dataInicio.dia
    /\ nota.dataEmissao[1].dia <= periodo.dataFim.dia

\* C24: every page adds to the result, in the order of the page, exactly its
\* documents issued from the start date to the end date, both days included whatever
\* the hour; a document with no issue date is left out.
C24_PeriodoInclusivo ==
    [][\A r \in RespostasPossiveis :
           (ReceberResposta(r) /\ r.tipo = "json") =>
               notas' = notas \o SelectSeq(parseDocs(r.docZip), DiaNoPeriodo)]_vars

\* C25: no two records of a returned list have the same non-empty access key.
C25_ChaveUnicaNoResultado ==
    resultado # Null =>
        \A i, j \in 1..Len(resultado[1]) :
            (i # j /\ resultado[1][i].chaveAcesso # ChaveVazia) =>
                resultado[1][i].chaveAcesso # resultado[1][j].chaveAcesso

\* C28: a client that is configured stays configured through every later upload,
\* accepted or refused, and every call of its operations.
C28_ConfiguradoParaSempre ==
    [][/\ isCertificadoConfigurado(nacional) => isCertificadoConfigurado(nacional')
       /\ isCertificadoConfigurado(recife) => isCertificadoConfigurado(recife')]_vars

C28_RecusadoDepoisDeConfigurado ==
    /\ isCertificadoConfigurado(recife)
    /\ ultimaConfig.alvo = "municipal"
    /\ ~ultimaConfig.sucesso
    /\ ultimaConfig.status = 400
    /\ chamada.cliente = "municipal"
    /\ chamada.requisicoes > 0

\* C30: an upload whose system tag is neither "nacional" nor "municipal" changes
\* the identity of neither client.
C30_OutroSistemaNaoConfigura ==
    [][\A req \in CertRequests :
           (PostCertificado(req) /\ req.sistema \notin {"nacional", "municipal"}) =>
               (nacional' = nacional /\ recife' = recife)]_vars

C29_NomesDistintosNoArquivo ==
    \A i, j \in 1..Len(zipEntries) : i # j => zipEntries[i].name # zipEntries[j].name

\* C22: once the caller has cancelled a period query in flight, no further page is
\* fetched for it.
C22_CanceladaNaoBuscaMais ==
    [][portal.fechada => pedidos' = pedidos]_vars

NumRegistrosDeLote ==
    Cardinality({i \in 1..Len(downloadLogs) : downloadLogs[i].tipoDownload = "lote"})

\* C27: a batch download has one audit record, appended when the batch completes:
\* none for a rejected batch or before the archive is finalized, one afterwards.
C27_UmRegistroAoConcluir ==
    /\ NumRegistrosDeLote <= 1
    /\ LoteRegistrado => finalizado
    /\ (bpc = "fim" /\ finalizado) => LoteRegistrado

====
